---- MODULE Spec2Model ----
(***************************************************************************)
(* Model of the MacSnap dependency resolution and batch execution engine:  *)
(* ConfigValidator (src/utils/validators.py) and InstallationEngine        *)
(* (src/utils/installer.py).                                               *)
(*                                                                         *)
(* A configuration collection is a Python dict id -> ConfigItem.  A dict   *)
(* iterates in insertion order, so the collection is modelled as the       *)
(* sequence of its keys (keys) together with the items (items).            *)
(***************************************************************************)
EXTENDS Integers, Sequences, FiniteSets, TLC

\* ------------------------------------------------------------------ bounds

\* Longest dependency list of an entity.
MaxDeps == 2
\* Longest selected_items list handed to batch_process.
MaxSel == 2

\* The identifiers entities and selections are drawn from.  A collection's
\* keys are any non-empty subset of them, so an identifier may be absent.
Ids == {"a", "b", "c"}

Slots == {"install", "validate", "configure", "uninstall"}

\* Iteration order of a SCRIPT_REQUIREMENTS entry (dict literal order).
SlotOrder == <<"install", "validate", "configure", "uninstall">>

Range(s) == {s[i] : i \in DOMAIN s}

\* Sequences over S of length <= n without repetition.
DistinctSeqs(S, n) ==
    {s \in UNION {[1..m -> S] : m \in 0..n} :
        \A i, j \in DOMAIN s : i # j => s[i] # s[j]}

\* The index of the first occurrence of x in s (list.index), 0 when absent.
IndexOf(s, x) ==
    IF x \in Range(s) THEN CHOOSE i \in DOMAIN s :
                               s[i] = x /\ \A j \in 1..(i - 1) : s[j] # x
    ELSE 0

\* ------------------------------------------------------------- validators.py

VALID_TYPES ==
    {"brew", "brew_cask", "mas", "direct_download_dmg", "direct_download_pkg",
     "proto_tool", "system_config", "launch_agent", "shell_script"}

\* SCRIPT_REQUIREMENTS: for each type, the slots whose value is True.
SCRIPT_REQUIREMENTS ==
    [t \in VALID_TYPES |->
        CASE t = "direct_download_dmg" -> {"install", "validate"}
          [] t = "direct_download_pkg" -> {"install", "validate"}
          [] t = "system_config" -> {"configure"}
          [] t = "launch_agent" -> {"install", "validate", "uninstall"}
          [] OTHER -> {"install"}]

ValidationError(item_id, field, error_type, cycle, severity) ==
    [item_id |-> item_id, field |-> field, error_type |-> error_type,
     cycle |-> cycle, severity |-> severity]

\* _validate_type: an error when the type is not one of VALID_TYPES.
ValidateType(id, item) ==
    IF item.type \notin VALID_TYPES
    THEN <<ValidationError(id, "type", "invalid_value", <<>>, "error")>>
    ELSE <<>>

\* _validate_scripts: the diagnostics of one item, in SlotOrder; sev selects the
\* errors (a required script is missing) or the warnings (a script is present
\* in a slot the type does not require).  The field of a diagnostic is the
\* slot's name (the source names it "<slot>_script").
ValidateScripts(id, item, sev) ==
    IF item.type \notin DOMAIN SCRIPT_REQUIREMENTS THEN <<>>
    ELSE
      LET req == SCRIPT_REQUIREMENTS[item.type]
          One(s) ==
            IF s \in req /\ s \notin item.scripts
            THEN IF sev = "error"
                 THEN <<ValidationError(id, s, "missing_required", <<>>, "error")>>
                 ELSE <<>>
            ELSE IF s \in item.scripts /\ s \notin req
                 THEN IF sev = "warning"
                      THEN <<ValidationError(id, s, "unnecessary", <<>>, "warning")>>
                      ELSE <<>>
                 ELSE <<>>
      IN One(SlotOrder[1]) \o One(SlotOrder[2]) \o One(SlotOrder[3])
           \o One(SlotOrder[4])

\* _is_valid_category on the categories items are given, "Development
\* Tools" and "system settings": category == category.title() and not
\* isupper() and not islower().
IsValidCategory(category) == category = "Development Tools"

\* _validate_field_formats: a warning for a category that is not in title
\* case.  Every modelled id and dependency id is well formed.
ValidateFieldFormats(id, item, sev) ==
    IF sev = "warning" /\ ~IsValidCategory(item.category)
    THEN <<ValidationError(id, "category", "format_suggestion", <<>>,
                           "warning")>>
    ELSE <<>>

\* _validate_single_item.  Every modelled item has a non-empty id, name, type
\* and category, so _validate_schema adds nothing.
ValidateSingleItem(id, item, sev) ==
    (IF sev = "error" THEN ValidateType(id, item) ELSE <<>>)
      \o ValidateScripts(id, item, sev)
      \o ValidateFieldFormats(id, item, sev)

\* The loop of validate_all over configurations.items().
RECURSIVE ValidateItems(_, _, _)
ValidateItems(cfg, i, sev) ==
    IF i > Len(cfg.keys) THEN <<>>
    ELSE ValidateSingleItem(cfg.keys[i], cfg.items[cfg.keys[i]], sev)
           \o ValidateItems(cfg, i + 1, sev)

\* _validate_dependencies: one missing_reference error per dependency that is
\* not a key of the collection.
RECURSIVE ValidateDependencies(_, _, _)
ValidateDependencies(cfg, i, j) ==
    IF i > Len(cfg.keys) THEN <<>>
    ELSE LET id == cfg.keys[i]
             ds == cfg.items[id].dependencies
         IN IF j > Len(ds) THEN ValidateDependencies(cfg, i + 1, 1)
            ELSE (IF ds[j] \notin Range(cfg.keys)
                  THEN <<ValidationError(id, "dependencies",
                                         "missing_reference", <<>>, "error")>>
                  ELSE <<>>)
                   \o ValidateDependencies(cfg, i, j + 1)

\* has_cycle(item_id, path) of _detect_circular_dependencies.  The closure's
\* shared variables are threaded through st = [visited, rec_stack, errors,
\* raised]; the value is [st, ret].  A True return leaves rec_stack as it is
\* (line 274 returns before line 276).  path.index(item_id) raises ValueError
\* when item_id is not in path: raised is set and the call unwinds like a True
\* return, without reaching the rec_stack.remove of any caller.
RECURSIVE HasCycle(_, _, _, _)
RECURSIVE HasCycleDeps(_, _, _, _, _)
\* Mutant of HasCycle: the reported path is not cut at the start of the cycle.
HasCycleWholePath(cfg, item_id, path, st) ==
    IF item_id \in st.rec_stack
    THEN IF item_id \notin Range(path)
         THEN [st |-> [st EXCEPT !.raised = TRUE], ret |-> TRUE]
         ELSE LET cycle_start == IndexOf(path, item_id)
                  cycle == SubSeq(path, 1, Len(path)) \o <<item_id>>
              IN [st |-> [st EXCEPT !.errors = @ \o
                            <<ValidationError(item_id, "dependencies",
                                "circular_dependency", cycle, "error")>>],
                  ret |-> TRUE]
    ELSE IF item_id \in st.visited
    THEN [st |-> st, ret |-> FALSE]
    ELSE LET st1 == [st EXCEPT !.visited = @ \cup {item_id},
                               !.rec_stack = @ \cup {item_id}]
             r == IF item_id \in Range(cfg.keys)
                  THEN HasCycleDeps(cfg, item_id, path, 1, st1)
                  ELSE [st |-> st1, ret |-> FALSE]
         IN IF r.ret THEN r
            ELSE [st |-> [r.st EXCEPT !.rec_stack = @ \ {item_id}],
                  ret |-> FALSE]

HasCycle(cfg, item_id, path, st) ==
    IF item_id \in st.rec_stack
    THEN IF item_id \notin Range(path)
         THEN [st |-> [st EXCEPT !.raised = TRUE], ret |-> TRUE]
         ELSE LET cycle_start == IndexOf(path, item_id)
                  cycle == SubSeq(path, cycle_start, Len(path)) \o <<item_id>>
              IN [st |-> [st EXCEPT !.errors = @ \o
                            <<ValidationError(item_id, "dependencies",
                                "circular_dependency", cycle, "error")>>],
                  ret |-> TRUE]
    ELSE IF item_id \in st.visited
    THEN [st |-> st, ret |-> FALSE]
    ELSE LET st1 == [st EXCEPT !.visited = @ \cup {item_id},
                               !.rec_stack = @ \cup {item_id}]
             r == IF item_id \in Range(cfg.keys)
                  THEN HasCycleDeps(cfg, item_id, path, 1, st1)
                  ELSE [st |-> st1, ret |-> FALSE]
         IN IF r.ret THEN r
            ELSE [st |-> [r.st EXCEPT !.rec_stack = @ \ {item_id}],
                  ret |-> FALSE]

\* The loop "for dep_id in item.dependencies" of has_cycle, from index j.
HasCycleDeps(cfg, item_id, path, j, st) ==
    LET ds == cfg.items[item_id].dependencies
    IN IF j > Len(ds) THEN [st |-> st, ret |-> FALSE]
       ELSE IF ds[j] \in Range(cfg.keys)
       THEN LET r == HasCycle(cfg, ds[j], path \o <<item_id>>, st)
            IN IF r.ret THEN r
               ELSE HasCycleDeps(cfg, item_id, path, j + 1, r.st)
       ELSE HasCycleDeps(cfg, item_id, path, j + 1, st)

\* _detect_circular_dependencies: the loop over the keys, from index i; an
\* exception raised by has_cycle ends it.
RECURSIVE DetectCircularDependencies(_, _, _)
DetectCircularDependencies(cfg, i, st) ==
    IF i > Len(cfg.keys) \/ st.raised THEN st
    ELSE IF cfg.keys[i] \notin st.visited
    THEN DetectCircularDependencies(cfg, i + 1,
                                    HasCycle(cfg, cfg.keys[i], <<>>, st).st)
    ELSE DetectCircularDependencies(cfg, i + 1, st)

\* Mutant of ValidateAll: the warnings are filed with the errors.
ValidateAllWarningsAsErrors(cfg) ==
    LET st == DetectCircularDependencies(cfg, 1,
                [visited |-> {}, rec_stack |-> {}, raised |-> FALSE,
                 errors |-> ValidateItems(cfg, 1, "error")
                              \o ValidateDependencies(cfg, 1, 1)])
    IN IF st.raised
       THEN [kind |-> "raised", errors |-> <<>>, warnings |-> <<>>]
       ELSE [kind |-> "returned",
             errors |-> st.errors \o ValidateItems(cfg, 1, "warning"),
             warnings |-> <<>>]

\* validate_all: [kind, errors, warnings]; kind is "returned", or "raised"
\* when the ValueError of has_cycle leaves validate_all.
ValidateAll(cfg) ==
    LET st == DetectCircularDependencies(cfg, 1,
                [visited |-> {}, rec_stack |-> {}, raised |-> FALSE,
                 errors |-> ValidateItems(cfg, 1, "error")
                              \o ValidateDependencies(cfg, 1, 1)])
    IN IF st.raised
       THEN [kind |-> "raised", errors |-> <<>>, warnings |-> <<>>]
       ELSE [kind |-> "returned", errors |-> st.errors,
             warnings |-> ValidateItems(cfg, 1, "warning")]

\* visit(item_id) of get_dependency_order; st = [visited, temp_mark, result].
RECURSIVE Visit(_, _, _)
RECURSIVE VisitDeps(_, _, _, _)
\* Mutant of Visit: the id is appended before its dependencies are visited.
VisitPreorder(cfg, item_id, st) ==
    IF item_id \in st.temp_mark THEN st
    ELSE IF item_id \in st.visited THEN st
    ELSE LET st1 == [st EXCEPT !.temp_mark = @ \cup {item_id},
                               !.result = Append(@, item_id)]
             st2 == IF item_id \in Range(cfg.keys)
                    THEN VisitDeps(cfg, item_id, 1, st1)
                    ELSE st1
         IN [visited |-> st2.visited \cup {item_id},
             temp_mark |-> st2.temp_mark \ {item_id},
             result |-> st2.result]

\* Mutant of Visit: an id already visited is visited again.
VisitRevisit(cfg, item_id, st) ==
    IF item_id \in st.temp_mark THEN st
    ELSE LET st1 == [st EXCEPT !.temp_mark = @ \cup {item_id}]
             st2 == IF item_id \in Range(cfg.keys)
                    THEN VisitDeps(cfg, item_id, 1, st1)
                    ELSE st1
         IN [visited |-> st2.visited \cup {item_id},
             temp_mark |-> st2.temp_mark \ {item_id},
             result |-> Append(st2.result, item_id)]

Visit(cfg, item_id, st) ==
    IF item_id \in st.temp_mark THEN st
    ELSE IF item_id \in st.visited THEN st
    ELSE LET st1 == [st EXCEPT !.temp_mark = @ \cup {item_id}]
             st2 == IF item_id \in Range(cfg.keys)
                    THEN VisitDeps(cfg, item_id, 1, st1)
                    ELSE st1
         IN [visited |-> st2.visited \cup {item_id},
             temp_mark |-> st2.temp_mark \ {item_id},
             result |-> Append(st2.result, item_id)]

\* The loop "for dep_id in item.dependencies" of visit, from index j.
VisitDeps(cfg, item_id, j, st) ==
    LET ds == cfg.items[item_id].dependencies
    IN IF j > Len(ds) THEN st
       ELSE IF ds[j] \in Range(cfg.keys)
       THEN VisitDeps(cfg, item_id, j + 1, Visit(cfg, ds[j], st))
       ELSE VisitDeps(cfg, item_id, j + 1, st)

\* The loop "for item_id in configurations" of get_dependency_order.
RECURSIVE VisitAll(_, _, _)
VisitAll(cfg, i, st) ==
    IF i > Len(cfg.keys) THEN st
    ELSE IF cfg.keys[i] \notin st.visited
    THEN VisitAll(cfg, i + 1, Visit(cfg, cfg.keys[i], st))
    ELSE VisitAll(cfg, i + 1, st)

\* get_dependency_order: [kind, order]; kind is "returned", or "raised" when
\* a ValueError leaves it (its own, for a circular_dependency error, or the
\* one validate_all let through).
GetDependencyOrder(cfg) ==
    LET v == ValidateAll(cfg)
        circular_errors ==
            SelectSeq(v.errors, LAMBDA e : e.error_type = "circular_dependency")
    IN IF v.kind = "raised" THEN [kind |-> "raised", order |-> <<>>]
       ELSE IF circular_errors # <<>> THEN [kind |-> "raised", order |-> <<>>]
       ELSE [kind |-> "returned",
             order |-> VisitAll(cfg, 1, [visited |-> {}, temp_mark |-> {},
                                         result |-> <<>>]).result]

\* -------------------------------------------------------------- installer.py

\* What one run of a script can do: exit 0, exit nonzero, run into the 300 s
\* timeout (subprocess.TimeoutExpired), or fail to launch (another exception).
RunOutcomes == {"exit0", "exit1", "timeout", "exception"}

\* The return code _execute_script reports for a timeout.
TimeoutCode == 124

ExecutionResult(op, item_id, result, return_code, stdout, stderr, err) ==
    [operation |-> op, item_id |-> item_id, result |-> result,
     return_code |-> return_code, stdout |-> stdout, stderr |-> stderr,
     error_message |-> err]

\* Mutant of ExecuteScript: an exception of the launch is reported Skipped.
ExecuteScriptLaunchErrorSkipped(item_id, operation, oc) ==
    CASE oc = "exit0" ->
           ExecutionResult(operation, item_id, "success", 0,
                           <<item_id, operation>>, "script stderr", "None")
      [] oc = "exit1" ->
           ExecutionResult(operation, item_id, "failed", 1,
                           <<item_id, operation>>, "script stderr", "None")
      [] oc = "exit124" ->
           ExecutionResult(operation, item_id, "failed", 124,
                           <<item_id, operation>>, "script stderr", "None")
      [] oc = "timeout" ->
           ExecutionResult(operation, item_id, "failed", TimeoutCode, <<>>,
                           "Script execution timed out after 5 minutes",
                           "Execution timeout")
      [] OTHER ->
           ExecutionResult(operation, item_id, "skipped", 1, <<>>,
                           "str(e)", "str(e)")

\* Mutant of ExecuteScript: TimeoutExpired is handled by the clause for any
\* other exception.
ExecuteScriptTimeoutUncaught(item_id, operation, oc) ==
    CASE oc = "exit0" ->
           ExecutionResult(operation, item_id, "success", 0,
                           <<item_id, operation>>, "script stderr", "None")
      [] oc = "exit1" ->
           ExecutionResult(operation, item_id, "failed", 1,
                           <<item_id, operation>>, "script stderr", "None")
      [] oc = "exit124" ->
           ExecutionResult(operation, item_id, "failed", 124,
                           <<item_id, operation>>, "script stderr", "None")
      [] OTHER ->
           ExecutionResult(operation, item_id, "failed", 1, <<>>,
                           "str(e)", "str(e)")

\* _execute_script: the result of one run with outcome oc.  The captured
\* stdout of a run that ended is the tag <<item_id, operation>>.  The return
\* code of a script that ended is the script's own (line 414), whatever it
\* is: exit0, exit1 and exit124 are scripts that end with 0, 1 and 124.  Any
\* other outcome is an exception caught at line 447.
ExecuteScript(item_id, operation, oc) ==
    CASE oc = "exit0" ->
           ExecutionResult(operation, item_id, "success", 0,
                           <<item_id, operation>>, "script stderr", "None")
      [] oc = "exit1" ->
           ExecutionResult(operation, item_id, "failed", 1,
                           <<item_id, operation>>, "script stderr", "None")
      [] oc = "exit124" ->
           ExecutionResult(operation, item_id, "failed", 124,
                           <<item_id, operation>>, "script stderr", "None")
      [] oc = "timeout" ->
           ExecutionResult(operation, item_id, "failed", TimeoutCode, <<>>,
                           "Script execution timed out after 5 minutes",
                           "Execution timeout")
      [] OTHER ->
           ExecutionResult(operation, item_id, "failed", 1, <<>>,
                           "str(e)", "str(e)")

\* The ways one _execute_script call can go: the script ends (with 0, 1 or
\* 124), the run times out, chmod or the launch raises ("exception", inside
\* the try of line 389), or writing the script into the temporary file raises
\* ("write_error", lines 384-387, before that try).
ExecOutcomes == RunOutcomes \cup {"exit124", "write_error"}

\* os.unlink in the finally clause removes the file or raises OSError.
UnlinkOutcomes == {"removed", "oserror"}

\* Whether the temporary file of a call is still on disk when _execute_script
\* returns.  NamedTemporaryFile(delete=False) leaves the file to the caller;
\* the only os.unlink is in the finally of the try entered after the file is
\* written, and an OSError of that unlink is passed over.
TempFileLeft(oc, unlink) == oc = "write_error" \/ unlink = "oserror"

\* The engine's run state while a handler runs: the three sets of __init__
\* and the script runs made so far (invoked, a history of the _execute_script
\* calls: [item_id, slot, outcome]).
Invocation(item_id, slot, oc) ==
    [item_id |-> item_id, slot |-> slot, outcome |-> oc]

\* check_install_status
CheckInstallStatus(eng, id, item, oc) ==
    IF "validate" \notin item.scripts
    THEN [eng |-> eng,
          result |-> ExecutionResult("validate", id, "failed", 1, <<>>,
                                     "No validation script provided", "None")]
    ELSE [eng |-> [eng EXCEPT !.invoked = Append(@, Invocation(id, "validate", oc))],
          result |-> ExecuteScript(id, "validate", oc)]

\* Mutant of InstallItem: a failed install is not added to failed_items.
InstallItemUnmarked(eng, id, item, oc) ==
    IF "install" \notin item.scripts
    THEN [eng |-> eng,
          result |-> ExecutionResult("install", id, "failed", 1, <<>>,
                                     "No installation script provided",
                                     "Missing install script")]
    ELSE LET result == ExecuteScript(id, "install", oc)
             eng1 == [eng EXCEPT !.invoked = Append(@, Invocation(id, "install", oc))]
         IN [eng |-> IF result.result = "success"
                     THEN [eng1 EXCEPT !.installed_items = @ \cup {id}]
                     ELSE eng1,
             result |-> result]

\* Mutant of InstallItem: a successful install is added to failed_items too.
InstallItemMarkedFailed(eng, id, item, oc) ==
    IF "install" \notin item.scripts
    THEN [eng |-> eng,
          result |-> ExecutionResult("install", id, "failed", 1, <<>>,
                                     "No installation script provided",
                                     "Missing install script")]
    ELSE LET result == ExecuteScript(id, "install", oc)
             eng1 == [eng EXCEPT !.invoked = Append(@, Invocation(id, "install", oc))]
         IN [eng |-> IF result.result = "success"
                     THEN [eng1 EXCEPT !.installed_items = @ \cup {id},
                                      !.failed_items = @ \cup {id}]
                     ELSE [eng1 EXCEPT !.failed_items = @ \cup {id}],
             result |-> result]

\* Mutant of InstallItem: a successful install takes the unit out of
\* failed_items.
InstallItemForgetsFailure(eng, id, item, oc) ==
    IF "install" \notin item.scripts
    THEN [eng |-> eng,
          result |-> ExecutionResult("install", id, "failed", 1, <<>>,
                                     "No installation script provided",
                                     "Missing install script")]
    ELSE LET result == ExecuteScript(id, "install", oc)
             eng1 == [eng EXCEPT !.invoked = Append(@, Invocation(id, "install", oc))]
         IN [eng |-> IF result.result = "success"
                     THEN [eng1 EXCEPT !.installed_items = @ \cup {id},
                                      !.failed_items = @ \ {id}]
                     ELSE [eng1 EXCEPT !.failed_items = @ \cup {id}],
             result |-> result]

\* install_item
InstallItem(eng, id, item, oc) ==
    IF "install" \notin item.scripts
    THEN [eng |-> eng,
          result |-> ExecutionResult("install", id, "failed", 1, <<>>,
                                     "No installation script provided",
                                     "Missing install script")]
    ELSE LET result == ExecuteScript(id, "install", oc)
             eng1 == [eng EXCEPT !.invoked = Append(@, Invocation(id, "install", oc))]
         IN [eng |-> IF result.result = "success"
                     THEN [eng1 EXCEPT !.installed_items = @ \cup {id}]
                     ELSE [eng1 EXCEPT !.failed_items = @ \cup {id}],
             result |-> result]

\* Mutant of ConfigureItem: a failed configure run adds the unit to
\* failed_items.
ConfigureItemMarksFailed(eng, id, item, oc) ==
    IF "configure" \notin item.scripts
    THEN [eng |-> eng,
          result |-> ExecutionResult("configure", id, "skipped", 0, <<>>,
                                     "No configuration script provided", "None")]
    ELSE LET result == ExecuteScript(id, "configure", oc)
             eng1 == [eng EXCEPT !.invoked = Append(@, Invocation(id, "configure", oc))]
         IN [eng |-> IF result.result = "success" THEN eng1
                     ELSE [eng1 EXCEPT !.failed_items = @ \cup {id}],
             result |-> result]

\* configure_item
ConfigureItem(eng, id, item, oc) ==
    IF "configure" \notin item.scripts
    THEN [eng |-> eng,
          result |-> ExecutionResult("configure", id, "skipped", 0, <<>>,
                                     "No configuration script provided", "None")]
    ELSE [eng |-> [eng EXCEPT !.invoked = Append(@, Invocation(id, "configure", oc))],
          result |-> ExecuteScript(id, "configure", oc)]

\* Mutant of UninstallItem: a unit without uninstall script is taken out of
\* installed_items all the same.
UninstallItemSkipDiscards(eng, id, item, oc) ==
    IF "uninstall" \notin item.scripts
    THEN [eng |-> [eng EXCEPT !.installed_items = @ \ {id}],
          result |-> ExecutionResult("uninstall", id, "skipped", 0, <<>>,
                                     "No uninstallation script provided", "None")]
    ELSE LET result == ExecuteScript(id, "uninstall", oc)
             eng1 == [eng EXCEPT !.invoked = Append(@, Invocation(id, "uninstall", oc))]
         IN [eng |-> IF result.result = "success"
                     THEN [eng1 EXCEPT !.installed_items = @ \ {id}]
                     ELSE eng1,
             result |-> result]

\* Mutant of UninstallItem: a failed uninstall run adds the unit to
\* failed_items.
UninstallItemMarksFailed(eng, id, item, oc) ==
    IF "uninstall" \notin item.scripts
    THEN [eng |-> eng,
          result |-> ExecutionResult("uninstall", id, "skipped", 0, <<>>,
                                     "No uninstallation script provided", "None")]
    ELSE LET result == ExecuteScript(id, "uninstall", oc)
             eng1 == [eng EXCEPT !.invoked = Append(@, Invocation(id, "uninstall", oc))]
         IN [eng |-> IF result.result = "success"
                     THEN [eng1 EXCEPT !.installed_items = @ \ {id}]
                     ELSE [eng1 EXCEPT !.failed_items = @ \cup {id}],
             result |-> result]

\* uninstall_item
UninstallItem(eng, id, item, oc) ==
    IF "uninstall" \notin item.scripts
    THEN [eng |-> eng,
          result |-> ExecutionResult("uninstall", id, "skipped", 0, <<>>,
                                     "No uninstallation script provided", "None")]
    ELSE LET result == ExecuteScript(id, "uninstall", oc)
             eng1 == [eng EXCEPT !.invoked = Append(@, Invocation(id, "uninstall", oc))]
         IN [eng |-> IF result.result = "success"
                     THEN [eng1 EXCEPT !.installed_items = @ \ {id}]
                     ELSE eng1,
             result |-> result]

\* Mutant of HandleInstallOperation: the validate result is not looked at.
HandleInstallOperationUnchecked(eng, id, item, vo, io, co) ==
    LET v == CheckInstallStatus(eng, id, item, vo)
        i == InstallItem(v.eng, id, item, io)
    IN IF i.result.result # "success" THEN i
       ELSE IF "configure" \in item.scripts
       THEN LET c == ConfigureItem(i.eng, id, item, co)
            IN IF c.result.result # "success" THEN c
               ELSE [eng |-> c.eng, result |-> i.result]
       ELSE i

\* Mutant of HandleInstallOperation: the configure script is run whatever the
\* install result.
HandleInstallOperationConfigureAlways(eng, id, item, vo, io, co) ==
    LET v == CheckInstallStatus(eng, id, item, vo)
    IN IF v.result.result = "success"
       THEN [eng |-> v.eng,
             result |-> ExecutionResult("install", id, "already_installed", 0,
                                        v.result.stdout, "Already installed",
                                        "None")]
       ELSE LET i == InstallItem(v.eng, id, item, io)
            IN IF "configure" \in item.scripts
               THEN LET c == ConfigureItem(i.eng, id, item, co)
                    IN IF i.result.result # "success" THEN [eng |-> c.eng, result |-> i.result]
                       ELSE IF c.result.result # "success" THEN c
                       ELSE [eng |-> c.eng, result |-> i.result]
               ELSE i

\* _handle_install_operation: validate -> install -> configure; vo, io and co
\* are the outcomes of the validate, install and configure runs, each read
\* only if that script is run.
HandleInstallOperation(eng, id, item, vo, io, co) ==
    LET v == CheckInstallStatus(eng, id, item, vo)
    IN IF v.result.result = "success"
       THEN [eng |-> v.eng,
             result |-> ExecutionResult("install", id, "already_installed", 0,
                                        v.result.stdout, "Already installed",
                                        "None")]
       ELSE LET i == InstallItem(v.eng, id, item, io)
            IN IF i.result.result # "success" THEN i
               ELSE IF "configure" \in item.scripts
               THEN LET c == ConfigureItem(i.eng, id, item, co)
                    IN IF c.result.result # "success" THEN c
                       ELSE [eng |-> c.eng, result |-> i.result]
               ELSE i

\* add_dependencies(item_id) of _resolve_dependencies, threading items_needed;
\* AddDependenciesFrom is its loop over item.dependencies, from index j.
RECURSIVE AddDependencies(_, _, _)
RECURSIVE AddDependenciesFrom(_, _, _, _)
\* Mutant of AddDependencies: the dependencies of a dependency are not added.
AddDependenciesDirect(cfg, item_id, items_needed) ==
    IF item_id \in Range(cfg.keys)
    THEN items_needed \cup Range(cfg.items[item_id].dependencies)
    ELSE items_needed

AddDependencies(cfg, item_id, items_needed) ==
    IF item_id \in Range(cfg.keys)
    THEN AddDependenciesFrom(cfg, item_id, 1, items_needed)
    ELSE items_needed

AddDependenciesFrom(cfg, item_id, j, items_needed) ==
    LET ds == cfg.items[item_id].dependencies
    IN IF j > Len(ds) THEN items_needed
       ELSE IF ds[j] \notin items_needed
       THEN AddDependenciesFrom(cfg, item_id, j + 1,
                AddDependencies(cfg, ds[j], items_needed \cup {ds[j]}))
       ELSE AddDependenciesFrom(cfg, item_id, j + 1, items_needed)

\* The loop "for item_id in selected_items" of _resolve_dependencies.
RECURSIVE AddSelected(_, _, _, _)
AddSelected(cfg, selected, i, items_needed) ==
    IF i > Len(selected) THEN items_needed
    ELSE AddSelected(cfg, selected, i + 1,
                     AddDependencies(cfg, selected[i], items_needed))

\* Mutant of ResolveDependencies: the closure in key order of the collection
\* instead of dependency order.
ResolveDependenciesKeyOrder(cfg, selected, dependency_order) ==
    LET items_needed == AddSelected(cfg, selected, 1, Range(selected))
    IN SelectSeq(cfg.keys, LAMBDA item_id : item_id \in items_needed)

\* Mutant of ResolveDependencies: the selected units without their
\* dependencies.
ResolveDependenciesSelectedOnly(cfg, selected, dependency_order) ==
    LET items_needed == Range(selected)
    IN SelectSeq(dependency_order, LAMBDA item_id : item_id \in items_needed)

\* _resolve_dependencies
ResolveDependencies(cfg, selected, dependency_order) ==
    LET items_needed == AddSelected(cfg, selected, 1, Range(selected))
    IN SelectSeq(dependency_order, LAMBDA item_id : item_id \in items_needed)

\* Mutant of DependenciesSatisfied: skipped dependencies are not looked at.
DependenciesSatisfiedFailedOnly(item, failed, skipped) ==
    \A j \in DOMAIN item.dependencies : item.dependencies[j] \notin failed

\* Mutant of DependenciesSatisfied: a unit with dependencies is held back by
\* any unit in the failed or skipped set.
DependenciesSatisfiedAnyFailure(item, failed, skipped) ==
    \A j \in DOMAIN item.dependencies : failed \cup skipped = {}

\* _dependencies_satisfied
DependenciesSatisfied(item, failed, skipped) ==
    \A j \in DOMAIN item.dependencies :
        ~(item.dependencies[j] \in failed \/ item.dependencies[j] \in skipped)

\* ------------------------------------------------------------ state machine

VARIABLES
    configurations,   \* the collection handed to the validator and the engine
    pc,               \* where the caller is: before, inside or after a call
    installed_items,  \* InstallationEngine.installed_items
    failed_items,     \* InstallationEngine.failed_items
    skipped_items,    \* InstallationEngine.skipped_items
    self_results,     \* InstallationEngine.results, the cumulative log
    operation,        \* batch_process: the operation argument
    selected_items,   \* batch_process: the selected_items argument
    items_to_process, \* batch_process: the closure in dependency order
    idx,               \* batch_process: position of the for loop
    results,          \* batch_process: the local list it returns
    invoked,          \* history: the script runs of the batch, in order
    vret,             \* what validate_all gave the caller
    oret,             \* what get_dependency_order gave the caller
    xret,             \* the last call that returned: the handler and its result
    tmp_created,      \* temporary script files the last handler call created
    tmp_files,        \* temporary script files of past calls still on disk
    calls             \* calls of engine methods that have returned

vars == <<configurations, pc, installed_items, failed_items, skipped_items,
          self_results, operation, selected_items, items_to_process, idx,
          results, invoked, vret, oret, xret, tmp_created, tmp_files, calls>>

\* What only the direct handler calls write.
itemVars == <<xret, tmp_created, tmp_files, calls>>

\* The catalogs entity types and scripts are drawn from.
MixedCatalog ==
    [id \in Ids |->
        CASE id = "a" -> [type |-> "brew", scripts |-> {"install", "configure"},
                          category |-> "Development Tools"]
          [] id = "b" -> [type |-> "launch_agent",
                          scripts |-> {"install", "validate", "uninstall"},
                          category |-> "system settings"]
          [] OTHER -> [type |-> "system_config", scripts |-> {"configure"},
                       category |-> "Development Tools"]]

BrokenCatalog ==
    [id \in Ids |->
        CASE id = "a" -> [type |-> "brew", scripts |-> {},
                          category |-> "Development Tools"]
          [] id = "b" -> [type |-> "homebrew", scripts |-> {"install"},
                          category |-> "Development Tools"]
          [] OTHER -> [type |-> "system_config", scripts |-> {"configure"},
                       category |-> "Development Tools"]]

Catalogs == {MixedCatalog, BrokenCatalog}

\* The collections: every insertion order of every non-empty subset of Ids,
\* every dependency list over Ids (known or not) of length <= MaxDeps.
KeySeqs == DistinctSeqs(Ids, Cardinality(Ids)) \ {<<>>}

DepLists == DistinctSeqs(Ids, MaxDeps)

Collection(k, d, cat) ==
    [keys |-> k,
     items |-> [id \in Range(k) |->
                  [dependencies |-> d[id], type |-> cat[id].type,
                   category |-> cat[id].category,
                   scripts |-> cat[id].scripts]]]

InitConfigurations ==
    \E k \in KeySeqs, cat \in Catalogs :
        \E d \in [Range(k) -> DepLists] :
            configurations = Collection(k, d, cat)

Operations == {"install", "uninstall", "configure", "upgrade"}

Selections == UNION {[1..m -> Ids] : m \in 0..MaxSel}

NoReturn == [kind |-> "none"]

\* A freshly constructed engine (__init__) and a collection.
Init ==
    /\ InitConfigurations
    /\ pc = "idle"
    /\ installed_items = {}
    /\ failed_items = {}
    /\ skipped_items = {}
    /\ self_results = <<>>
    /\ operation = "none"
    /\ selected_items = <<>>
    /\ items_to_process = <<>>
    /\ idx = 0
    /\ results = <<>>
    /\ invoked = <<>>
    /\ vret = NoReturn
    /\ oret = NoReturn
    /\ xret = NoReturn
    /\ tmp_created = 0
    /\ tmp_files = 0
    /\ calls = 0

\* Mutant of ConfigurationErrorsFound: a single error does not abort.
ConfigurationErrorsFoundSeveral(errors) == Len(errors) > 1

\* "if errors:" of batch_process (line 196).
ConfigurationErrorsFound(errors) == errors # <<>>

\* batch_process up to its for loop (lines 192-216).  validate_all is called
\* outside any try, so its ValueError leaves batch_process; selected_items and
\* operation are first read after both checks passed.  An empty closure makes
\* the loop body never run and the call return.
BatchStart ==
    /\ pc = "idle"
    /\ UNCHANGED itemVars
    /\ LET v == ValidateAll(configurations)
           o == GetDependencyOrder(configurations)
       IN IF v.kind = "raised"
          THEN /\ pc' = "raised"
               /\ UNCHANGED <<operation, selected_items, items_to_process, idx>>
          ELSE IF ConfigurationErrorsFound(v.errors) \/ o.kind = "raised"
          THEN /\ pc' = "returned"
               /\ UNCHANGED <<operation, selected_items, items_to_process, idx>>
          ELSE \E selected \in Selections, op \in Operations :
                 LET todo == ResolveDependencies(configurations, selected,
                                                 o.order)
                 IN /\ items_to_process' = todo
                    /\ idx' = 1
                    /\ operation' = op
                    /\ selected_items' = selected
                    /\ pc' = IF todo = <<>> THEN "returned" ELSE "loop"
    /\ results' = <<>>
    /\ UNCHANGED <<configurations, installed_items, failed_items, skipped_items,
                   self_results, invoked, vret, oret>>

\* The outcomes a script run of this iteration can have: those of RunOutcomes
\* when the operation can reach the slot and the item has the script.
Runs(item, slot, ops) ==
    IF operation \in ops /\ slot \in item.scripts THEN RunOutcomes
    ELSE {"exit0"}

\* One iteration of the for loop of batch_process (lines 218-267); after the
\* last one the call returns results (line 270).
ProcessItem ==
    /\ pc = "loop"
    /\ UNCHANGED itemVars
    /\ LET item_id == items_to_process[idx]
           eng == [installed_items |-> installed_items,
                   failed_items |-> failed_items,
                   skipped_items |-> skipped_items, invoked |-> invoked]
       IN IF item_id \notin Range(configurations.keys)
          THEN UNCHANGED <<installed_items, failed_items, skipped_items,
                           self_results, results, invoked>>
          ELSE LET item == configurations.items[item_id]
               IN IF ~DependenciesSatisfied(item, failed_items, skipped_items)
                  THEN /\ results' = Append(results,
                            ExecutionResult(operation, item_id, "skipped", 0,
                                <<>>, "Dependencies not satisfied",
                                "Skipped due to failed dependencies"))
                       /\ skipped_items' = skipped_items \cup {item_id}
                       /\ UNCHANGED <<installed_items, failed_items,
                                      self_results, invoked>>
                  ELSE IF operation \in {"install", "uninstall", "configure"}
                  THEN \E vo \in Runs(item, "validate", {"install"}),
                          io \in Runs(item, "install", {"install"}),
                          co \in Runs(item, "configure", {"install", "configure"}),
                          uo \in Runs(item, "uninstall", {"uninstall"}) :
                       LET r == CASE operation = "install" ->
                                      HandleInstallOperation(eng, item_id, item,
                                                             vo, io, co)
                                  [] operation = "uninstall" ->
                                      UninstallItem(eng, item_id, item, uo)
                                  [] OTHER ->
                                      ConfigureItem(eng, item_id, item, co)
                       IN /\ results' = Append(results, r.result)
                          /\ self_results' = Append(self_results, r.result)
                          /\ installed_items' = r.eng.installed_items
                          /\ failed_items' = r.eng.failed_items
                          /\ skipped_items' = r.eng.skipped_items
                          /\ invoked' = r.eng.invoked
                  ELSE /\ results' = Append(results,
                            ExecutionResult(operation, item_id, "failed", 1,
                                <<>>, "str(e)", "str(e)"))
                       /\ failed_items' = failed_items \cup {item_id}
                       /\ UNCHANGED <<installed_items, skipped_items,
                                      self_results, invoked>>
    /\ idx' = idx + 1
    /\ pc' = IF idx + 1 > Len(items_to_process) THEN "returned" ELSE "loop"
    /\ UNCHANGED <<configurations, operation, selected_items, items_to_process,
                   vret, oret>>

Next == BatchStart \/ ProcessItem

Spec == Init /\ [][Next]_vars

\* The validator on its own: a collection, then one call of validate_all or
\* of get_dependency_order.
InitValidator ==
    /\ InitConfigurations
    /\ pc = "fresh"
    /\ installed_items = {}
    /\ failed_items = {}
    /\ skipped_items = {}
    /\ self_results = <<>>
    /\ operation = "none"
    /\ selected_items = <<>>
    /\ items_to_process = <<>>
    /\ idx = 0
    /\ results = <<>>
    /\ invoked = <<>>
    /\ vret = NoReturn
    /\ oret = NoReturn
    /\ xret = NoReturn
    /\ tmp_created = 0
    /\ tmp_files = 0
    /\ calls = 0

CallValidateAll ==
    /\ pc = "fresh"
    /\ UNCHANGED itemVars
    /\ vret' = ValidateAll(configurations)
    /\ pc' = "validated"
    /\ UNCHANGED <<configurations, installed_items, failed_items, skipped_items,
                   self_results, operation, selected_items, items_to_process,
                   idx, results, invoked, oret>>

CallGetDependencyOrder ==
    /\ pc = "fresh"
    /\ UNCHANGED itemVars
    /\ oret' = GetDependencyOrder(configurations)
    /\ pc' = "ordered"
    /\ UNCHANGED <<configurations, installed_items, failed_items, skipped_items,
                   self_results, operation, selected_items, items_to_process,
                   idx, results, invoked, vret>>

NextValidator == CallValidateAll \/ CallGetDependencyOrder

SpecValidator == InitValidator /\ [][NextValidator]_vars

\* The item handlers called directly on one engine, one after the other, with
\* the items of a catalog.  invoked holds the script runs of the last call.
MaxCalls == 2

InitItem ==
    /\ \E cat \in Catalogs :
          configurations = Collection(<<"a", "b", "c">>,
                                      [id \in Ids |-> <<>>], cat)
    /\ pc = "ready"
    /\ installed_items = {}
    /\ failed_items = {}
    /\ skipped_items = {}
    /\ self_results = <<>>
    /\ operation = "none"
    /\ selected_items = <<>>
    /\ items_to_process = <<>>
    /\ idx = 0
    /\ results = <<>>
    /\ invoked = <<>>
    /\ vret = NoReturn
    /\ oret = NoReturn
    /\ xret = NoReturn
    /\ tmp_created = 0
    /\ tmp_files = 0
    /\ calls = 0

\* The engine as a handler finds it.
Engine ==
    [installed_items |-> installed_items, failed_items |-> failed_items,
     skipped_items |-> skipped_items, invoked |-> <<>>]

\* The return of a handler call r whose script run, if there was one, went
\* the way oc and ended with the unlink outcome unlink.
Return(handler, id, r, oc, unlink) ==
    /\ installed_items' = r.eng.installed_items
    /\ failed_items' = r.eng.failed_items
    /\ skipped_items' = r.eng.skipped_items
    /\ invoked' = r.eng.invoked
    /\ xret' = [handler |-> handler, item_id |-> id, result |-> r.result]
    /\ tmp_created' = Len(r.eng.invoked)
    /\ tmp_files' = IF r.eng.invoked # <<>> /\ TempFileLeft(oc, unlink)
                    THEN tmp_files + 1 ELSE tmp_files
    /\ calls' = calls + 1
    /\ pc' = "called"
    /\ UNCHANGED <<configurations, self_results, operation, selected_items,
                   items_to_process, idx, results, vret, oret>>

CallCheckInstallStatus ==
    /\ pc \in {"ready", "called"} /\ calls < MaxCalls
    /\ \E id \in Range(configurations.keys), oc \in ExecOutcomes,
          unlink \in UnlinkOutcomes :
          Return("check_install_status", id,
                 CheckInstallStatus(Engine, id, configurations.items[id], oc),
                 oc, unlink)

CallInstallItem ==
    /\ pc \in {"ready", "called"} /\ calls < MaxCalls
    /\ \E id \in Range(configurations.keys), oc \in ExecOutcomes,
          unlink \in UnlinkOutcomes :
          Return("install_item", id,
                 InstallItem(Engine, id, configurations.items[id], oc),
                 oc, unlink)

CallConfigureItem ==
    /\ pc \in {"ready", "called"} /\ calls < MaxCalls
    /\ \E id \in Range(configurations.keys), oc \in ExecOutcomes,
          unlink \in UnlinkOutcomes :
          Return("configure_item", id,
                 ConfigureItem(Engine, id, configurations.items[id], oc),
                 oc, unlink)

CallUninstallItem ==
    /\ pc \in {"ready", "called"} /\ calls < MaxCalls
    /\ \E id \in Range(configurations.keys), oc \in ExecOutcomes,
          unlink \in UnlinkOutcomes :
          Return("uninstall_item", id,
                 UninstallItem(Engine, id, configurations.items[id], oc),
                 oc, unlink)

NextItem ==
    \/ CallCheckInstallStatus
    \/ CallInstallItem
    \/ CallConfigureItem
    \/ CallUninstallItem

SpecItem == InitItem /\ [][NextItem]_vars

\* ------------------------------------------------------------------ claims

\* The dependency graph of a collection, read off the collection itself.
Keys(cfg) == Range(cfg.keys)

Deps(cfg, x) == Range(cfg.items[x].dependencies)

\* S and the keys S reaches over at most n dependency edges.
RECURSIVE ReachWithin(_, _, _)
ReachWithin(cfg, S, n) ==
    IF n = 0 THEN S
    ELSE ReachWithin(cfg,
             S \cup {y \in Keys(cfg) : \E z \in S : y \in Deps(cfg, z)}, n - 1)

\* The keys x reaches over one or more dependency edges.
ReachFrom(cfg, x) ==
    ReachWithin(cfg, Deps(cfg, x) \cap Keys(cfg), Cardinality(Keys(cfg)))

Cyclic(cfg) == \E x \in Keys(cfg) : x \in ReachFrom(cfg, x)

DepsKnown(cfg) == \A x \in Keys(cfg) : Deps(cfg, x) \subseteq Keys(cfg)

\* s names a closed walk of the graph: it starts and ends with the same id
\* and each consecutive pair is a declared dependency edge.
IsCycleOf(cfg, s) ==
    /\ Len(s) >= 2
    /\ s[1] = s[Len(s)]
    /\ \A i \in 1..(Len(s) - 1) :
          s[i] \in Keys(cfg) /\ s[i + 1] \in Deps(cfg, s[i])

\* C1: for an acyclic collection whose dependencies are all keys,
\* get_dependency_order returns a list in which every entity comes after each
\* of its declared dependencies, whatever the insertion order of the keys.
C1_OrderRespectsDependencies ==
    (pc = "ordered" /\ ~Cyclic(configurations) /\ DepsKnown(configurations)) =>
        /\ oret.kind = "returned"
        /\ \A x \in Keys(configurations) : \A y \in Deps(configurations, x) :
              /\ IndexOf(oret.order, y) > 0
              /\ IndexOf(oret.order, x) > IndexOf(oret.order, y)

\* An order was returned for a chain whose keys were inserted dependents first.
C1_Witness ==
    /\ pc = "ordered"
    /\ oret.kind = "returned"
    /\ ~Cyclic(configurations) /\ DepsKnown(configurations)
    /\ Len(configurations.keys) = 3
    /\ configurations.keys[2] \in Deps(configurations, configurations.keys[1])
    /\ configurations.keys[3] \in Deps(configurations, configurations.keys[2])

\* C2: for a collection whose graph has a cycle, validate_all returns with a
\* circular_dependency error naming the members of a cycle, and
\* get_dependency_order fails, whatever the insertion order of the keys.
C2_CycleReported ==
    Cyclic(configurations) =>
        /\ pc = "validated" =>
              /\ vret.kind = "returned"
              /\ \E i \in DOMAIN vret.errors :
                    /\ vret.errors[i].error_type = "circular_dependency"
                    /\ IsCycleOf(configurations, vret.errors[i].cycle)
        /\ pc = "ordered" => oret.kind = "raised"

\* S and the keys joined to S by at most n dependency edges, taken in either
\* direction.
RECURSIVE JoinedWithin(_, _, _)
JoinedWithin(cfg, S, n) ==
    IF n = 0 THEN S
    ELSE JoinedWithin(cfg,
             S \cup {y \in Keys(cfg) : \E z \in S : \/ y \in Deps(cfg, z)
                                                   \/ z \in Deps(cfg, y)},
             n - 1)

\* The weakly connected component of the key x.
Component(cfg, x) == JoinedWithin(cfg, {x}, Cardinality(Keys(cfg)))

\* C20: for every weakly connected component of the dependency graph that
\* contains a cycle, validate_all returns, and the errors it returns include
\* a circular_dependency error whose path lies in that component, whatever
\* the insertion order of the keys.
C20_CyclePerComponent ==
    pc = "validated" =>
        \A x \in Keys(configurations) :
            x \in ReachFrom(configurations, x) =>
                /\ vret.kind = "returned"
                /\ \E i \in DOMAIN vret.errors :
                      /\ vret.errors[i].error_type = "circular_dependency"
                      /\ vret.errors[i].cycle # <<>>
                      /\ Range(vret.errors[i].cycle)
                            \subseteq Component(configurations, x)

\* The circular_dependency errors _detect_circular_dependencies has added to
\* self.errors when it ends, by return or by the ValueError of has_cycle.
EmittedCircular(cfg) ==
    DetectCircularDependencies(cfg, 1,
        [visited |-> {}, rec_stack |-> {}, raised |-> FALSE,
         errors |-> <<>>]).errors

\* C21: every circular_dependency error of validate_all names a closed
\* cycle: the reported sequence starts and ends with the same id and each
\* consecutive pair is a declared dependency edge; for an acyclic graph
\* validate_all returns and no such error is emitted.
C21_ReportedCyclesAreCycles ==
    pc = "validated" =>
        /\ \A i \in DOMAIN vret.errors :
              vret.errors[i].error_type = "circular_dependency"
              => IsCycleOf(configurations, vret.errors[i].cycle)
        /\ \A i \in DOMAIN EmittedCircular(configurations) :
              IsCycleOf(configurations,
                        EmittedCircular(configurations)[i].cycle)
        /\ ~Cyclic(configurations) =>
              /\ vret.kind = "returned"
              /\ EmittedCircular(configurations) = <<>>
              /\ \A i \in DOMAIN vret.errors :
                    vret.errors[i].error_type # "circular_dependency"

\* A cycle of two was reported that the traversal entered from a key outside
\* it: the path of the traversal is longer than the cycle.
C21_Witness ==
    /\ pc = "validated" /\ vret.kind = "returned"
    /\ \E i \in DOMAIN vret.errors :
          /\ vret.errors[i].error_type = "circular_dependency"
          /\ Len(vret.errors[i].cycle) = 3
          /\ configurations.keys[1] \notin Range(vret.errors[i].cycle)
          /\ vret.errors[i].cycle[1]
                \in ReachFrom(configurations, configurations.keys[1])

\* C30: for a collection without a cycle, get_dependency_order returns a
\* permutation of the keys: every key once and no other id, also when a
\* declared dependency is not a key.
C30_OrderIsPermutation ==
    (pc = "ordered" /\ ~Cyclic(configurations)) =>
        /\ oret.kind = "returned"
        /\ Len(oret.order) = Cardinality(Keys(configurations))
        /\ Range(oret.order) = Keys(configurations)

\* An order was returned for two keys, the first of which declares the second
\* and an id that is not a key.
C30_Witness ==
    /\ pc = "ordered" /\ oret.kind = "returned"
    /\ ~Cyclic(configurations)
    /\ Len(configurations.keys) = 2
    /\ configurations.keys[2] \in Deps(configurations, configurations.keys[1])
    /\ ~(Deps(configurations, configurations.keys[1])
           \subseteq Keys(configurations))

\* --------------------------------------------------- claims on batch_process

\* The results of a unit in the list batch_process builds.
ResultsOf(id) == {i \in DOMAIN results : results[i].item_id = id}

\* The result records a unit skipped for its dependencies.
IsDependencySkip(r) ==
    r.result = "skipped" /\ r.stderr = "Dependencies not satisfied"

\* The script runs of a unit.
InvokedOf(id) == {i \in DOMAIN invoked : invoked[i].item_id = id}

Ran(id, slot, oc) ==
    \E i \in DOMAIN invoked :
        invoked[i] = Invocation(id, slot, oc)

\* A valid collection: every type is a known one, every script the type
\* requires is there, every dependency is a key and the graph has no cycle.
Valid(cfg) ==
    /\ \A x \in Keys(cfg) :
          /\ cfg.items[x].type \in VALID_TYPES
          /\ SCRIPT_REQUIREMENTS[cfg.items[x].type] \subseteq cfg.items[x].scripts
    /\ DepsKnown(cfg)
    /\ ~Cyclic(cfg)

\* The selection closure: the selected keys and all they reach.
Closure(cfg, selected) ==
    LET sel == Range(selected) \cap Keys(cfg)
    IN sel \cup UNION {ReachFrom(cfg, x) : x \in sel}

\* C3: when validate_all reports an error for any entity, batch_process
\* returns an empty list, runs no script and leaves the installed, failed and
\* skipped sets and the cumulative log as they were.
C3_ErrorsAbortBatch ==
    [][(/\ pc = "idle"
        /\ LET v == ValidateAll(configurations)
           IN v.kind = "returned" /\ v.errors # <<>>)
       => /\ pc' = "returned"
          /\ results' = <<>>
          /\ UNCHANGED <<invoked, installed_items, failed_items,
                         skipped_items, self_results>>]_vars

\* A batch returned empty on a collection whose only error is a dependency
\* that is no key.
C3_Witness ==
    /\ pc = "returned"
    /\ results = <<>> /\ invoked = <<>>
    /\ LET v == ValidateAll(configurations)
       IN /\ v.kind = "returned"
          /\ Len(v.errors) = 1
          /\ v.errors[1].error_type = "missing_reference"

\* C4: for a collection whose graph has a cycle, batch_process returns an
\* empty list: it does not raise and runs no script, whatever the insertion
\* order of the keys.
C4_CycleAbortsBatch ==
    (Cyclic(configurations) /\ pc # "idle") =>
        pc = "returned" /\ results = <<>> /\ invoked = <<>>

\* C5: on a valid collection batch_process returns exactly one result for
\* each unit of the selection closure and none for any other unit.
C5_OneResultPerClosureUnit ==
    (pc = "returned" /\ Valid(configurations)) =>
        /\ \A id \in Closure(configurations, selected_items) :
              Cardinality(ResultsOf(id)) = 1
        /\ \A i \in DOMAIN results :
              results[i].item_id \in Closure(configurations, selected_items)

\* A selection naming an absent id and a key that declares one dependency:
\* two results, one of them Failed.
C5_Witness ==
    /\ pc = "returned"
    /\ Valid(configurations)
    /\ Len(selected_items) = 2
    /\ selected_items[1] \notin Keys(configurations)
    /\ selected_items[2] \in Keys(configurations)
    /\ Len(results) = 2
    /\ \E i \in DOMAIN results : results[i].result = "failed"

\* C6: in the list batch_process builds, the result of every unit comes after
\* the results of all of its declared dependencies.
C6_DependenciesFirst ==
    \A i \in DOMAIN results :
        \A y \in Deps(configurations, results[i].item_id) :
            \E j \in 1..(i - 1) : results[j].item_id = y

\* Three results for a chain whose keys were inserted dependents first.
C6_Witness ==
    /\ pc = "returned"
    /\ Len(results) = 3
    /\ Len(configurations.keys) = 3
    /\ configurations.keys[2] \in Deps(configurations, configurations.keys[1])
    /\ configurations.keys[3] \in Deps(configurations, configurations.keys[2])

\* C7: X depends on Y, Y's install script exits nonzero, selected = [X],
\* operation install: Y is Failed, X is Skipped and no script of X is run.
C7_FailedInstallSkipsDependent ==
    (pc = "returned" /\ operation = "install" /\ Len(selected_items) = 1) =>
        LET X == selected_items[1]
        IN \A Y \in Ids :
             (/\ X \in Keys(configurations)
              /\ Y \in Deps(configurations, X)
              /\ Ran(Y, "install", "exit1"))
             => /\ \E i \in ResultsOf(Y) : results[i].result = "failed"
                /\ \E i \in ResultsOf(X) : IsDependencySkip(results[i])
                /\ InvokedOf(X) = {}

\* The selected unit declares a dependency whose install run exited nonzero.
C7_Witness ==
    /\ pc = "returned" /\ operation = "install" /\ Len(selected_items) = 1
    /\ selected_items[1] \in Keys(configurations)
    /\ \E Y \in Deps(configurations, selected_items[1]) :
          Ran(Y, "install", "exit1")

\* C8: a unit recorded Skipped with "Dependencies not satisfied" is in the
\* skipped set, and every unit processed after it that reaches it over
\* dependency edges is recorded Skipped too, with no script run.
C8_SkipsPropagate ==
    \A i \in DOMAIN results :
        IsDependencySkip(results[i]) =>
            /\ results[i].item_id \in skipped_items
            /\ \A j \in (i + 1)..Len(results) :
                  results[i].item_id
                      \in ReachFrom(configurations, results[j].item_id)
                  => /\ IsDependencySkip(results[j])
                     /\ InvokedOf(results[j].item_id) = {}

\* A chain of three: the first failed, the second was skipped for it, and the
\* third, which declares only the second, was skipped as well.
C8_Witness ==
    /\ pc = "returned"
    /\ Len(results) = 3
    /\ results[1].result = "failed"
    /\ IsDependencySkip(results[2])
    /\ IsDependencySkip(results[3])
    /\ Deps(configurations, results[3].item_id) = {results[2].item_id}

\* C9: in an install batch a unit whose install succeeds and whose configure
\* fails ends with the configure result, and every unit of the closure that
\* declares it as a dependency is recorded Skipped.
C9_ConfigureFailurePropagates ==
    (pc = "returned" /\ operation = "install") =>
        \A u \in Ids :
            (/\ Ran(u, "install", "exit0")
             /\ \E oc \in RunOutcomes \ {"exit0"} : Ran(u, "configure", oc))
            => /\ \A i \in ResultsOf(u) :
                     results[i].operation = "configure"
                       /\ results[i].result = "failed"
               /\ \A j \in DOMAIN results :
                     u \in Deps(configurations, results[j].item_id)
                     => IsDependencySkip(results[j])

\* C10: in an install batch a unit whose validate script exits 0 is
\* AlreadyInstalled with the validate run's stdout, neither its install nor
\* its configure script is run, and no unit is skipped on its account.
C10_AlreadyInstalled ==
    (pc = "returned" /\ operation = "install") =>
        \A u \in Ids :
            Ran(u, "validate", "exit0") =>
                /\ \A i \in ResultsOf(u) :
                      /\ results[i].result = "already_installed"
                      /\ results[i].stdout = <<u, "validate">>
                /\ ResultsOf(u) # {}
                /\ ~\E oc \in RunOutcomes :
                      Ran(u, "install", oc) \/ Ran(u, "configure", oc)
                /\ u \notin failed_items \cup skipped_items
                /\ \A j \in DOMAIN results :
                      (/\ u \in Deps(configurations, results[j].item_id)
                       /\ IsDependencySkip(results[j]))
                      => \E y \in Deps(configurations, results[j].item_id) \ {u} :
                            y \in failed_items \cup skipped_items

\* A unit found already installed, and a unit declaring it that was run.
C10_Witness ==
    /\ pc = "returned" /\ operation = "install"
    /\ \E u \in Ids :
          /\ Ran(u, "validate", "exit0")
          /\ \E j \in DOMAIN results :
                /\ u \in Deps(configurations, results[j].item_id)
                /\ ~IsDependencySkip(results[j])

\* C11: in an uninstall or a configure batch, when the script of a unit
\* fails (nonzero exit, timeout or launch exception), every unit of the
\* closure that reaches it over dependency edges is recorded Skipped with
\* "Dependencies not satisfied" and none of its scripts is run.
C11_UninstallConfigureFailureSkipsDependents ==
    (pc = "returned" /\ operation \in {"uninstall", "configure"}) =>
        \A u \in Ids :
            (\E oc \in RunOutcomes \ {"exit0"} : Ran(u, operation, oc))
            => \A j \in DOMAIN results :
                  u \in ReachFrom(configurations, results[j].item_id)
                  => /\ IsDependencySkip(results[j])
                     /\ InvokedOf(results[j].item_id) = {}

\* The last script run of a unit.
LastRun(id) ==
    invoked[CHOOSE i \in InvokedOf(id) : \A k \in InvokedOf(id) : k <= i]

\* C12: batch_process does not raise for a failure of one unit.  It raises
\* only before the loop, with no result and no script run; a unit whose last
\* script run exits nonzero, times out or fails to launch has a Failed
\* result; under an unknown operation every unit that is dispatched has a
\* Failed result; and the loop goes on, so that the returned list holds one
\* result for every unit of the closure.
C12_UnitFailuresAreRecorded ==
    /\ pc = "raised" =>
          operation = "none" /\ results = <<>> /\ invoked = <<>>
    /\ \A i \in DOMAIN results :
          /\ (/\ InvokedOf(results[i].item_id) # {}
              /\ LastRun(results[i].item_id).outcome # "exit0")
             => results[i].result = "failed"
          /\ operation \notin {"install", "uninstall", "configure"}
             => results[i].result = "failed" \/ IsDependencySkip(results[i])
    /\ (pc = "returned" /\ operation # "none") =>
          /\ Len(results) = Len(items_to_process)
          /\ \A i \in DOMAIN results :
                results[i].item_id = items_to_process[i]

\* A unit failed on a timeout or a launch exception of its script, and a unit
\* processed after it was dispatched and succeeded.
C12_Witness ==
    /\ pc = "returned"
    /\ \E i \in DOMAIN results :
          /\ \E oc \in {"timeout", "exception"} :
                Ran(results[i].item_id, operation, oc)
          /\ results[i].result = "failed"
          /\ \E j \in (i + 1)..Len(results) : results[j].result = "success"

\* C13: in a batch on a fresh engine, a unit recorded Skipped with
\* "Dependencies not satisfied" has a dependency, processed before it, whose
\* result in this batch is Failed or Skipped; a unit none of whose transitive
\* dependencies ends Failed or Skipped is therefore dispatched, whatever its
\* place in the closure order.
C13_UnrelatedUnitsAreDispatched ==
    \A i \in DOMAIN results :
        IsDependencySkip(results[i]) =>
            \E j \in 1..(i - 1) :
                /\ results[j].item_id
                      \in ReachFrom(configurations, results[i].item_id)
                /\ results[j].result \in {"failed", "skipped"}

\* Three units were processed: the first failed, the last declares a
\* dependency that did not fail and was dispatched after the failure.
C13_Witness ==
    /\ pc = "returned" /\ Len(results) = 3
    /\ results[1].result = "failed"
    /\ results[1].item_id
          \notin ReachFrom(configurations, results[3].item_id)
    /\ Deps(configurations, results[3].item_id) = {results[2].item_id}
    /\ ~IsDependencySkip(results[3])
    /\ InvokedOf(results[3].item_id) # {}

\* C14: every result batch_process appends to the list it returns is also
\* appended to the engine's cumulative log: after one batch on a fresh engine
\* the log is the returned list, and so the summary counts every result.
C14_ReturnedResultsAreLogged ==
    pc \in {"loop", "returned"} => self_results = results

\* The timeout result of a script run.
IsTimeoutResult(r) ==
    /\ r.result = "failed"
    /\ r.return_code = 124
    /\ r.error_message = "Execution timeout"

InstallRank(slot) ==
    CASE slot = "validate" -> 1
      [] slot = "install" -> 2
      [] slot = "configure" -> 3
      [] OTHER -> 4

\* C22: in an install batch the script runs of one unit come in the order
\* validate, install, configure, each slot at most once; the install script
\* is run only if the validate run did not succeed, the configure script only
\* if the unit has one and its install script exited 0.
C22_InstallSequence ==
    operation = "install" =>
        \A i \in DOMAIN invoked :
            LET u == invoked[i].item_id
            IN /\ InstallRank(invoked[i].slot) <= 3
               /\ \A j \in (i + 1)..Len(invoked) :
                     invoked[j].item_id = u
                     => InstallRank(invoked[i].slot)
                          < InstallRank(invoked[j].slot)
               /\ invoked[i].slot = "install"
                     => ~Ran(u, "validate", "exit0")
               /\ invoked[i].slot = "configure"
                     => /\ Ran(u, "install", "exit0")
                        /\ "configure" \in configurations.items[u].scripts

\* One unit ran validate, which failed, then install; another ran install,
\* which exited 0, then configure.
C22_Witness ==
    /\ pc = "returned" /\ operation = "install"
    /\ \E u, w \in Ids :
          /\ Ran(u, "validate", "exit1") /\ Ran(u, "install", "exit0")
          /\ Ran(w, "install", "exit0") /\ Ran(w, "configure", "exit1")

\* A collection with something to warn about: a script in a slot the type
\* does not require, or a category that is not in title case.
Warned(cfg) ==
    \E x \in Keys(cfg) :
        \/ /\ cfg.items[x].type \in VALID_TYPES
           /\ cfg.items[x].scripts
                 \ SCRIPT_REQUIREMENTS[cfg.items[x].type] # {}
        \/ cfg.items[x].category # "Development Tools"

\* C19: warnings never block execution: on a collection that draws warnings
\* and no error, batch_process does not abort, and when it returns every unit
\* of the selection closure has a result.
C19_WarningsDoNotBlock ==
    (pc = "returned" /\ Valid(configurations) /\ Warned(configurations)) =>
        /\ operation \in Operations
        /\ \A u \in Closure(configurations, selected_items) :
              ResultsOf(u) # {}

\* A batch over two units, one with a script its type does not require and
\* one with a lower-case category, both dispatched.
C19_Witness ==
    /\ pc = "returned" /\ Valid(configurations) /\ Len(results) = 2
    /\ \E x \in Closure(configurations, selected_items) :
          "configure" \in configurations.items[x].scripts
            /\ configurations.items[x].type = "brew"
    /\ \E x \in Closure(configurations, selected_items) :
          configurations.items[x].category = "system settings"
    /\ \A i \in DOMAIN results : InvokedOf(results[i].item_id) # {}

\* Batches called one after the other on one engine, with clear_results
\* called between them or not.  The collection has two units, b declaring a,
\* inserted dependent first; operation, selected_items, items_to_process,
\* idx, results and invoked are those of the batch in progress.
SessionCatalog ==
    [id \in Ids |->
        [type |-> "brew", scripts |-> {"install", "uninstall"},
         category |-> "Development Tools"]]

InitSession ==
    /\ configurations = Collection(<<"b", "a">>,
                                   [id \in {"a", "b"} |->
                                       IF id = "b" THEN <<"a">> ELSE <<>>],
                                   SessionCatalog)
    /\ pc = "idle"
    /\ installed_items = {}
    /\ failed_items = {}
    /\ skipped_items = {}
    /\ self_results = <<>>
    /\ operation = "none"
    /\ selected_items = <<>>
    /\ items_to_process = <<>>
    /\ idx = 0
    /\ results = <<>>
    /\ invoked = <<>>
    /\ vret = NoReturn
    /\ oret = NoReturn
    /\ xret = NoReturn
    /\ tmp_created = 0
    /\ tmp_files = 0
    /\ calls = 0

\* The caller has the list batch_process returned and goes on to the next
\* call on the same engine.
BatchReturn ==
    /\ pc = "returned" /\ calls + 1 < MaxCalls
    /\ pc' = "idle"
    /\ calls' = calls + 1
    /\ xret' = [handler |-> "batch_process"]
    /\ operation' = "none"
    /\ selected_items' = <<>>
    /\ items_to_process' = <<>>
    /\ idx' = 0
    /\ results' = <<>>
    /\ invoked' = <<>>
    /\ UNCHANGED <<configurations, installed_items, failed_items, skipped_items,
                   self_results, vret, oret, tmp_created, tmp_files>>

\* Mutant of ClearResults: failed_items is not cleared.
ClearResultsKeepsFailed ==
    /\ pc = "returned" /\ calls + 1 < MaxCalls
    /\ self_results' = <<>>
    /\ installed_items' = {}
    /\ skipped_items' = {}
    /\ pc' = "idle"
    /\ calls' = calls + 1
    /\ xret' = [handler |-> "clear_results"]
    /\ operation' = "none"
    /\ selected_items' = <<>>
    /\ items_to_process' = <<>>
    /\ idx' = 0
    /\ results' = <<>>
    /\ invoked' = <<>>
    /\ UNCHANGED <<configurations, failed_items, vret, oret, tmp_created,
                   tmp_files>>

\* clear_results, called by the caller that has the list of the last batch.
ClearResults ==
    /\ pc = "returned" /\ calls + 1 < MaxCalls
    /\ self_results' = <<>>
    /\ installed_items' = {}
    /\ failed_items' = {}
    /\ skipped_items' = {}
    /\ pc' = "idle"
    /\ calls' = calls + 1
    /\ xret' = [handler |-> "clear_results"]
    /\ operation' = "none"
    /\ selected_items' = <<>>
    /\ items_to_process' = <<>>
    /\ idx' = 0
    /\ results' = <<>>
    /\ invoked' = <<>>
    /\ UNCHANGED <<configurations, vret, oret, tmp_created, tmp_files>>

NextSession == BatchStart \/ ProcessItem \/ BatchReturn \/ ClearResults

SpecSession == InitSession /\ [][NextSession]_vars

\* ------------------------------------------- claims on sequences of batches

\* C23: the failed set and the skipped set lose a member only through
\* clear_results, and in a batch of any known operation a unit with a
\* declared dependency in either set, whenever it got there, is recorded
\* Skipped with "Dependencies not satisfied" and none of its scripts is run.
C23_FailuresPersist ==
    [][/\ (/\ calls' # calls
           /\ "handler" \in DOMAIN xret' /\ xret'.handler = "clear_results")
          \/ (/\ failed_items \subseteq failed_items'
              /\ skipped_items \subseteq skipped_items')
       /\ (/\ pc = "loop"
           /\ operation \in {"install", "uninstall", "configure"}
           /\ Deps(configurations, items_to_process[idx])
                 \cap (failed_items \cup skipped_items) # {})
          => /\ Len(results') = Len(results) + 1
             /\ IsDependencySkip(results'[Len(results')])
             /\ results'[Len(results')].item_id = items_to_process[idx]
             /\ invoked' = invoked]_vars

\* In a later batch, an uninstall, a unit was skipped for a dependency that
\* succeeded in this batch: the dependency is in the failed set from an
\* earlier batch.
C23_Witness ==
    /\ pc = "returned" /\ calls >= 1 /\ operation = "uninstall"
    /\ \E i \in DOMAIN results :
          /\ IsDependencySkip(results[i])
          /\ \A d \in Deps(configurations, results[i].item_id) :
                \E j \in DOMAIN results :
                    results[j].item_id = d /\ results[j].result = "success"

\* The last call that returned is clear_results: the engine is idle after it
\* or runs the batch that follows it.
Cleared == "handler" \in DOMAIN xret /\ xret.handler = "clear_results"

\* The units with a result of one of the given outcomes in the batch.
UnitsEnding(outcomes) ==
    {results[i].item_id : i \in {k \in DOMAIN results :
                                      results[k].result \in outcomes}}

\* C24: clear_results leaves the cumulative log and the installed, failed
\* and skipped sets empty, and the batch that follows it runs as on a fresh
\* engine: a unit is skipped for its dependencies only on account of a Failed
\* or Skipped result of this batch, and the log and the sets hold nothing but
\* what this batch put there.
C24_ClearResetsEngine ==
    Cleared =>
        /\ pc = "idle" =>
              /\ self_results = <<>>
              /\ installed_items = {} /\ failed_items = {}
              /\ skipped_items = {}
        /\ \A i \in DOMAIN results :
              IsDependencySkip(results[i]) =>
                  \E j \in 1..(i - 1) :
                      /\ results[j].item_id
                            \in Deps(configurations, results[i].item_id)
                      /\ results[j].result \in {"failed", "skipped"}
        /\ failed_items \cup skipped_items
              \subseteq UnitsEnding({"failed", "skipped"})
        /\ installed_items \subseteq UnitsEnding({"success"})
        /\ Len(self_results) <= Len(results)
        /\ \A k \in DOMAIN self_results :
              \E i \in DOMAIN results : results[i] = self_results[k]

\* After clear_results an install batch over both units ended with two
\* successes.
C24_Witness ==
    /\ Cleared /\ pc = "returned" /\ operation = "install"
    /\ Len(results) = 2
    /\ \A i \in DOMAIN results : results[i].result = "success"
    /\ installed_items = {"a", "b"}

\* C25: an uninstall batch uses the closure and the order of an install
\* batch: every unit Y a selected unit X reaches over dependency edges has a
\* result, before that of X; Y's uninstall script is run unless Y is skipped
\* for its dependencies, and it is run before X's uninstall script.
C25_UninstallClosureOrder ==
    (pc = "returned" /\ operation = "uninstall") =>
        \A X \in Range(selected_items) \cap Keys(configurations) :
            \A Y \in ReachFrom(configurations, X) :
                /\ ResultsOf(Y) # {}
                /\ \A i \in ResultsOf(Y), j \in ResultsOf(X) : i < j
                /\ (/\ "uninstall" \in configurations.items[Y].scripts
                    /\ \A i \in ResultsOf(Y) : ~IsDependencySkip(results[i]))
                   => \E oc \in RunOutcomes : Ran(Y, "uninstall", oc)
                /\ \A i \in InvokedOf(Y), j \in InvokedOf(X) : i < j

\* Only b was selected; the uninstall script of a, which b declares, was run
\* and then that of b.
C25_Witness ==
    /\ pc = "returned" /\ operation = "uninstall"
    /\ selected_items = <<"b">>
    /\ Len(invoked) = 2
    /\ invoked[1].item_id = "a" /\ invoked[1].slot = "uninstall"
    /\ invoked[2].item_id = "b" /\ invoked[2].slot = "uninstall"

\* The declared dependencies of the unit all have a result of this batch,
\* Success or AlreadyInstalled.
DependenciesSucceeded(u) ==
    \A d \in Deps(configurations, u) :
        \E j \in DOMAIN results :
            /\ results[j].item_id = d
            /\ results[j].result \in {"success", "already_installed"}

\* C28: in any install batch of a sequence of batches on one engine, a unit
\* whose declared dependencies all end Success or AlreadyInstalled in that
\* batch is not recorded Skipped for its dependencies, even when one of them
\* failed in an earlier batch.
C28_RecoveredDependencyUnblocks ==
    (pc = "returned" /\ operation = "install") =>
        \A i \in DOMAIN results :
            DependenciesSucceeded(results[i].item_id)
            => ~IsDependencySkip(results[i])

\* C28, amended: in any install batch of a sequence of batches on one
\* engine, a unit whose declared dependencies all end Success or
\* AlreadyInstalled in that batch, none of them being in the failed or the
\* skipped set, is not recorded Skipped for its dependencies.
C28_SucceededDependenciesUnblock ==
    (pc = "returned" /\ operation = "install") =>
        \A i \in DOMAIN results :
            (/\ DependenciesSucceeded(results[i].item_id)
             /\ Deps(configurations, results[i].item_id)
                   \cap (failed_items \cup skipped_items) = {})
            => ~IsDependencySkip(results[i])

\* In a later install batch, on an engine with a unit in the failed set, a
\* unit whose dependency succeeded and is in neither set was dispatched.
C28_Witness ==
    /\ pc = "returned" /\ operation = "install" /\ calls >= 1
    /\ failed_items # {}
    /\ \E i \in DOMAIN results :
          /\ Deps(configurations, results[i].item_id) # {}
          /\ DependenciesSucceeded(results[i].item_id)
          /\ Deps(configurations, results[i].item_id)
                \cap (failed_items \cup skipped_items) = {}
          /\ InvokedOf(results[i].item_id) # {}

\* ------------------------------------------------ claims on the item handlers

\* C16: after _execute_script returns, on every exit path, the temporary
\* script file created for the execution is gone: no handler call leaves a
\* temporary file on disk.
C16_TemporaryFileRemoved ==
    pc = "called" => tmp_files = 0

\* C17: return code 124 is reserved for timeouts: a result with return code
\* 124 has the error detail "Execution timeout" and comes from a script run
\* that timed out, never from a script that ran to completion.
C17_TimeoutCodeReserved ==
    (pc = "called" /\ xret.result.return_code = 124) =>
        /\ xret.result.error_message = "Execution timeout"
        /\ \E i \in DOMAIN invoked : invoked[i].outcome = "timeout"

\* The script slot a handler runs.
HandlerSlot(handler) ==
    CASE handler = "check_install_status" -> "validate"
      [] handler = "install_item" -> "install"
      [] handler = "configure_item" -> "configure"
      [] OTHER -> "uninstall"

\* C18: called for a unit whose script for the slot is absent,
\* check_install_status returns Failed and configure_item and uninstall_item
\* return Skipped with return code 0; the call runs no script, creates no
\* temporary file, and leaves the installed, failed and skipped sets as they
\* were.
C18_NoOpFastPath ==
    [][(/\ xret'.handler
             \in {"check_install_status", "configure_item", "uninstall_item"}
        /\ HandlerSlot(xret'.handler)
             \notin configurations.items[xret'.item_id].scripts)
       => /\ IF xret'.handler = "check_install_status"
             THEN xret'.result.result = "failed"
             ELSE /\ xret'.result.result = "skipped"
                  /\ xret'.result.return_code = 0
          /\ invoked' = <<>>
          /\ tmp_created' = 0
          /\ tmp_files' = tmp_files
          /\ UNCHANGED <<installed_items, failed_items, skipped_items>>]_vars

\* uninstall_item was called for an installed unit that has no uninstall
\* script.
C18_Witness ==
    /\ pc = "called"
    /\ xret.handler = "uninstall_item"
    /\ "uninstall" \notin configurations.items[xret.item_id].scripts
    /\ xret.result.result = "skipped"
    /\ xret.item_id \in installed_items

\* C27: in an install batch over a valid collection, a unit without install
\* script that is dispatched and whose validate did not succeed ends Failed,
\* is in the failed set, and every unit of the closure that declares it is
\* recorded Skipped.
C27_MissingInstallScriptFails ==
    (pc = "returned" /\ operation = "install" /\ Valid(configurations)) =>
        \A i \in DOMAIN results :
            LET u == results[i].item_id
            IN (/\ "install" \notin configurations.items[u].scripts
                /\ ~IsDependencySkip(results[i])
                /\ ~Ran(u, "validate", "exit0"))
               => /\ results[i].result = "failed"
                  /\ u \in failed_items
                  /\ \A j \in DOMAIN results :
                        u \in Deps(configurations, results[j].item_id)
                        => IsDependencySkip(results[j])

\* C26: uninstall_item changes the run state only when the script succeeds,
\* and then only by taking the unit out of the installed set; a failed or
\* absent uninstall script leaves the three sets as they were, and no outcome
\* changes the failed or the skipped set.
C26_UninstallFrame ==
    [][xret'.handler = "uninstall_item"
       => /\ UNCHANGED <<failed_items, skipped_items>>
          /\ installed_items' =
                IF xret'.result.result = "success"
                THEN installed_items \ {xret'.item_id}
                ELSE installed_items]_vars

\* The uninstall script of an installed unit ran and failed; the unit is
\* still in the installed set.
C26_Witness ==
    /\ pc = "called" /\ xret.handler = "uninstall_item"
    /\ xret.result.result = "failed"
    /\ invoked # <<>>
    /\ xret.item_id \in installed_items

\* C29: after any sequence of calls on one engine the installed set and the
\* failed set are disjoint.
C29_InstalledFailedDisjoint ==
    installed_items \cap failed_items = {}

\* C29, amended: no call puts a unit into the installed and the failed set
\* at once, and the two sets stay disjoint over every call except an
\* install_item call for a unit that is already in one of them: a unit whose
\* install failed and later succeeded, or the reverse, is in both.
C29_OnlyReinstallOverlaps ==
    [][/\ \A u \in Ids :
             u \in installed_items' \cap failed_items'
             => u \in installed_items \cup failed_items
       /\ (/\ installed_items \cap failed_items = {}
           /\ installed_items' \cap failed_items' # {})
          => /\ xret'.handler = "install_item"
             /\ installed_items' \cap failed_items' = {xret'.item_id}
             /\ xret'.item_id \in installed_items \cup failed_items]_vars

\* install_item succeeded for a unit that is in the failed set from an
\* earlier call.
C29_Witness ==
    /\ pc = "called" /\ xret.handler = "install_item"
    /\ xret.result.result = "success"
    /\ xret.item_id \in installed_items \cap failed_items
====
